---- MODULE Spec2Model ----
(***************************************************************************)
(* The auto-orbit camera controller of src/src/utils/cesium.js as a state  *)
(* machine: the module-level variables of the file, the toggle switch of   *)
(* the page, the browser's pending requestAnimationFrame callbacks, the    *)
(* async calls suspended at `await adjustCoordinateHeight(...)`, and the   *)
(* CesiumJS camera with its current flight.                                *)
(*                                                                         *)
(* Units.  Time is counted in ticks of half a second (TicksPerSecond).     *)
(* Angles of the heading are counted in 1/UnitsPerRev of a revolution, so  *)
(* that  seconds * (rpm / 60) * 2 pi  is the integer  ticks * rpm.         *)
(* Pitch is in thousandths of a degree, range in metres.                  *)
(***************************************************************************)
EXTENDS Integers, FiniteSets, Sequences, Bags, TLC

VARIABLES
    checked,               \* document.getElementById("toggle-switch").checked
    autoOrbitCameraSpeed,  \* cesium.js:57
    autoOrbitType,         \* cesium.js:63
    animationFrameId,      \* cesium.js:68
    flyToCoordinates,      \* cesium.js:76
    isUIInitialized,       \* cesium.js:81
    frames,                \* pending requestAnimationFrame callbacks: [id, loop]
    nextFrameId,           \* the id the next requestAnimationFrame returns
    starts,                \* startAutoOrbitAnimation calls awaiting their center (bag of centers)
    flights,               \* flyToBoundingSphere calls awaiting adjustCoordinateHeight (bag)
    currentFlight,         \* the camera's flight in progress, or NoFlight
    camera,                \* pose of cesiumViewer.camera: [target, heading, pitch, range]
                           \* and `zoomed`, its zoom steps since the pose was last set
    now,                   \* Date.now(), in ticks
    steps,                 \* history: handlers and callbacks run so far
    stopped,               \* history: stopAutoOrbitAnimation ran and no start was invoked since
    last,                  \* history: the handler of the last step, what its start did, what it threw
    call,                  \* a call of one of the application's functions: its name and arguments
    returned,              \* what the call has returned, once it has
    hash,                  \* window.location.hash
    selectedMarkerId,      \* create-markers.js (part_005:270)
    markerClickHandler,    \* part_005:258: the POI list its click action is bound to, or null
    entities,              \* cesiumViewer.entities: the id and the billboard scale of each
    sidebarIsOpen,         \* <main> has the class sidebar-is-open
    closeButtonListener,   \* sidebar.js:23: TRUE when it refers to a listener
    sidebar,               \* the children of #sidebar: the close button's listeners, the sections
    detailsRequests,       \* updateSidebarElements calls awaiting getPlaceDetails (bag of place ids)
    markerCalls,           \* the calls of main and updateMarkers, in the order issued,
                           \* with their POIs and how far each has got
    markerSvgs,            \* createMarkers' forEach callbacks awaiting createMarkerSvg (bag of ids)
    createdPois,           \* history: the list most recently passed to createMarkers
    zoomResetController,   \* app.js (part_007:84): the coordinates of the listener that its
                           \* signal keeps registered, or null (undefined)
    locationCall,          \* the coordinates of an updateLocation call awaiting its
                           \* performFlyTo, or null
    locations              \* history: the updateLocation calls so far

pageVars == <<selectedMarkerId, markerClickHandler, entities, sidebarIsOpen,
              closeButtonListener, sidebar, detailsRequests, markerCalls,
              markerSvgs, createdPois, zoomResetController, locationCall,
              locations>>

vars == <<checked, autoOrbitCameraSpeed, autoOrbitType, animationFrameId,
          flyToCoordinates, isUIInitialized, frames, nextFrameId, starts,
          flights, currentFlight, camera, now, steps, stopped, last,
          call, returned, hash, pageVars>>

----------------------------------------------------------------------------
(* Bounds of the model *)

\* handlers and callbacks that run in one behaviour
MaxSteps == 7
\* ticks that may pass between two frame callbacks
MaxDt == 1
\* startAutoOrbitAnimation calls that may await their center at once
MaxStarts == 2
\* flyToBoundingSphere calls that may await adjustCoordinateHeight at once
MaxFlights == 1
\* zoom-in or zoom-out clicks in a row, from a pose a flight or a frame set
MaxZoomSteps == 1
\* updateSidebarElements calls that may await their place details at once
MaxRequests == 2
\* updateMarkers calls in one behaviour
MaxUpdates == 2
\* flyToBoundingSphere calls a click on the zoom-reset button leaves awaiting
\* adjustCoordinateHeight at once
MaxResetFlights == 2
\* updateLocation calls in one behaviour
MaxLocations == 2

----------------------------------------------------------------------------
(* Program constants, cesium.js:18-38 *)

CAMERA_HEIGHT == 100
BASE_PITCH == -30
AUTO_ORBIT_PITCH_AMPLITUDE == 10
\* 0.55, in hundredths
RANGE_AMPLITUDE_RELATIVE == 55
ZOOM_FACTOR == 20
\* CAMERA_OFFSET.range, metres
CAMERA_OFFSET_RANGE == 800

\* /1000 of cesium.js:309 turns milliseconds into seconds; the model's clock
\* ticks twice a second
TicksPerSecond == 2
UnitsPerRev == 60 * TicksPerSecond

MilliDeg(deg) == deg * 1000

CAMERA_OFFSET == [heading |-> 0, pitch |-> MilliDeg(BASE_PITCH),
                  range |-> CAMERA_OFFSET_RANGE]

null == "null"
NoFlight == [coords |-> null]
NoError == "none"

\* config.location.coordinates, where main and the zoom reset button fly to
ConfigCoordinates == "A"
\* where the application flies to afterwards: the location of a clicked
\* marker, or a location newly chosen
Coords == {"B"}
\* config.camera of the page: revolutions per minute, and the orbit type
ConfigCamera == [speed |-> 10, orbitType |-> "dynamic-orbit"]
\* camera.speed of a changed configuration, revolutions per minute
Speeds == {0, 10}
OrbitTypes == {"fixed-orbit", "dynamic-orbit"}
\* config.poi.searchRadius passed to updateZoomToRadius, metres
SearchRadii == {500}

----------------------------------------------------------------------------
(* The state as one record, so that a handler is a function of the state   *)
(* and the calls it makes compose.                                         *)

St == [checked |-> checked, autoOrbitCameraSpeed |-> autoOrbitCameraSpeed,
       autoOrbitType |-> autoOrbitType, animationFrameId |-> animationFrameId,
       flyToCoordinates |-> flyToCoordinates, isUIInitialized |-> isUIInitialized,
       frames |-> frames, nextFrameId |-> nextFrameId, starts |-> starts,
       flights |-> flights, currentFlight |-> currentFlight, camera |-> camera,
       now |-> now, steps |-> steps, stopped |-> stopped, last |-> last]

Commit(s) ==
    /\ checked' = s.checked
    /\ autoOrbitCameraSpeed' = s.autoOrbitCameraSpeed
    /\ autoOrbitType' = s.autoOrbitType
    /\ animationFrameId' = s.animationFrameId
    /\ flyToCoordinates' = s.flyToCoordinates
    /\ isUIInitialized' = s.isUIInitialized
    /\ frames' = s.frames
    /\ nextFrameId' = s.nextFrameId
    /\ starts' = s.starts
    /\ flights' = s.flights
    /\ currentFlight' = s.currentFlight
    /\ camera' = s.camera
    /\ now' = s.now
    /\ steps' = s.steps
    /\ stopped' = s.stopped
    /\ last' = s.last

\* a handler begins: nothing started, nothing thrown yet
Enter(s, op) ==
    [s EXCEPT !.last = [op |-> op, start |-> "none", error |-> NoError],
              !.steps = @ + 1]

----------------------------------------------------------------------------
(* Geometry *)

\* a point of the scene: over the coordinates `at`, `height` metres above the terrain
Point(at, height) == [at |-> at, height |-> height]

\* `undefined`, where a point is expected: what scene.pickPosition returns
\* when the ray hits nothing
Undefined == Point("undefined", 0)

\* the camera before the first flight: START_COORDINATES, looking straight down
StartPose == [target |-> Point("start", 0), heading |-> 0,
              pitch |-> MilliDeg(-90), range |-> 15000000,
              zoomed |-> 0]

\* adjustCoordinateHeight: the point CAMERA_HEIGHT above the terrain at coords
adjustCoordinateHeight(coords) == Point(coords, CAMERA_HEIGHT)

\* scene.pickPosition at the middle of the viewport, when the ray hits the scene:
\* the surface point the camera looks down on
ViewCenter(cam) == Point(cam.target.at, 0)

\* the values scene.pickPosition may return for this camera
PickResults(s) == {Undefined, ViewCenter(s.camera)}

Abs(x) == IF x < 0 THEN -x ELSE x

\* Cesium.Cartesian3.distance(center, camera.position)
Distance(center, cam) ==
    IF cam.target.at = center.at
    THEN cam.range + Abs(cam.target.height - center.height)
    ELSE cam.range + 1000

\* 1000 * Math.sin of an angle given in heading units, exact or rounded at
\* the multiples of 30 degrees the model's speeds produce
Sin1000(d) ==
    LET k == (d % UnitsPerRev) \div (UnitsPerRev \div 12)
    IN  CASE k \in {0, 6} -> 0
          [] k \in {1, 5} -> 500
          [] k \in {2, 4} -> 866
          [] k = 3 -> 1000
          [] k \in {7, 11} -> -500
          [] k \in {8, 10} -> -866
          [] OTHER -> -1000

----------------------------------------------------------------------------
(* Browser and camera primitives *)

\* requestAnimationFrame(calculateAutoOrbitFrame), assigned to animationFrameId
requestAnimationFrame(s, loop) ==
    [s EXCEPT !.frames = @ \cup {[id |-> s.nextFrameId, loop |-> loop]},
              !.nextFrameId = @ + 1,
              !.animationFrameId = s.nextFrameId]

cancelAnimationFrame(s, id) ==
    [s EXCEPT !.frames = {f \in @ : f.id # id}]

\* camera.flyToBoundingSphere(..., {duration: 0}): the running flight is
\* cancelled (its complete callback never fires) and the pose is set at once
SetView(s, center, heading, pitch, range) ==
    [s EXCEPT !.currentFlight = NoFlight,
              !.camera = [target |-> center, heading |-> heading % UnitsPerRev,
                          pitch |-> pitch, range |-> range, zoomed |-> 0]]

isAutoOrbitEnabled(s) == s.checked

----------------------------------------------------------------------------
(* The orbit loop, cesium.js:261-358 *)

\* secondsSinceLastFrame * (autoOrbitCameraSpeed / 60) * Math.PI * 2, with the
\* elapsed time in ticks and the result in heading units
Radian(elapsed, speed) == (elapsed * speed * UnitsPerRev) \div (60 * TicksPerSecond)

\* initialPitch + pitchAmplitude * Math.sin(totalHeadingChange)
DynamicPitch(initialPitch, totalHeadingChange) ==
    initialPitch + AUTO_ORBIT_PITCH_AMPLITUDE * Sin1000(totalHeadingChange)

\* a faulty range, which grows where cesium.js:324-326 shrinks it
DynamicRangeWidening(initialRange, totalHeadingChange) ==
    initialRange
        + (RANGE_AMPLITUDE_RELATIVE * initialRange * Sin1000(totalHeadingChange))
              \div (100 * 1000)

\* initialRange + RANGE_AMPLITUDE_RELATIVE * initialRange * -Math.sin(totalHeadingChange)
DynamicRange(initialRange, totalHeadingChange) ==
    initialRange
        + (RANGE_AMPLITUDE_RELATIVE * initialRange * (-Sin1000(totalHeadingChange)))
              \div (100 * 1000)

\* a faulty pitch, which follows the sine wave whatever the orbit type
PitchOfSineWave(type, initialPitch, totalHeadingChange) ==
    DynamicPitch(initialPitch, totalHeadingChange)

FramePitch(type, initialPitch, totalHeadingChange) ==
    IF type = "dynamic-orbit" THEN DynamicPitch(initialPitch, totalHeadingChange)
    ELSE initialPitch

FrameRange(type, initialRange, totalHeadingChange) ==
    IF type = "dynamic-orbit" THEN DynamicRange(initialRange, totalHeadingChange)
    ELSE initialRange

\* a faulty closure, which never updates previousFrameTimestamp: every frame
\* would turn by the time since the loop began
StalePreviousFrameTimestamp(loop, currentTimestamp) == loop.previousFrameTimestamp

\* cesium.js:339: the closure's previousFrameTimestamp after a frame
NextPreviousFrameTimestamp(loop, currentTimestamp) == currentTimestamp

\* One call of the closure calculateAutoOrbitFrame of one loop.  The fields
\* startTimestamp and speedsUsed are history: when the run began and the
\* speeds its frames turned by.
calculateAutoOrbitFrame(s, loop) ==
    LET currentTimestamp == s.now
        secondsSinceLastFrame == currentTimestamp - loop.previousFrameTimestamp
        radian == Radian(secondsSinceLastFrame, s.autoOrbitCameraSpeed)
        heading == loop.heading + radian
        totalHeadingChange == heading - loop.initialHeading
        pitch == FramePitch(s.autoOrbitType, loop.initialPitch, totalHeadingChange)
        range == FrameRange(s.autoOrbitType, loop.initialRange, totalHeadingChange)
        posed == SetView(s, loop.center, heading, pitch, range)
        next == [loop EXCEPT
                   !.heading = heading,
                   !.previousFrameTimestamp =
                       NextPreviousFrameTimestamp(loop, currentTimestamp),
                   !.speedsUsed = IF secondsSinceLastFrame = 0 THEN @
                                  ELSE @ \cup {s.autoOrbitCameraSpeed}]
    IN  requestAnimationFrame(posed, next)

\* cesium.js:306-337: a call of the closure in which
\* camera.flyToBoundingSphere throws.  The statements after it do not run: no
\* frame is requested; nothing in the closure or around it catches the error,
\* which leaves the callback uncaught.
calculateAutoOrbitFrameThrowing(s, loop) ==
    [s EXCEPT !.last.error = "uncaught"]

\* a faulty start, which begins at the pose of CAMERA_OFFSET instead of the
\* camera's
StartFromDefaultPose(s, center) ==
    IF center = Undefined
    THEN [s EXCEPT !.last.start = "aborted"]
    ELSE LET loop == [center |-> center,
                      initialPitch |-> CAMERA_OFFSET.pitch,
                      initialHeading |-> CAMERA_OFFSET.heading,
                      initialRange |-> CAMERA_OFFSET.range,
                      heading |-> CAMERA_OFFSET.heading,
                      previousFrameTimestamp |-> s.now,
                      startTimestamp |-> s.now,
                      speedsUsed |-> {}]
         IN  calculateAutoOrbitFrame([s EXCEPT !.last.start = "running"], loop)

\* a faulty start, without the early return of cesium.js:283-285: it would
\* orbit around `undefined`
StartWithoutCenterCheck(s, center) ==
    LET initialHeading == s.camera.heading
        loop == [center |-> center,
                 initialPitch |-> s.camera.pitch,
                 initialHeading |-> initialHeading,
                 initialRange |-> Distance(center, s.camera),
                 heading |-> initialHeading,
                 previousFrameTimestamp |-> s.now,
                 startTimestamp |-> s.now,
                 speedsUsed |-> {}]
    IN  calculateAutoOrbitFrame([s EXCEPT !.last.start = "running"], loop)

\* cesium.js:283-345: startAutoOrbitAnimation once its center is known
StartWithCenter(s, center) ==
    IF center = Undefined
    THEN [s EXCEPT !.last.start = "aborted"]
    ELSE LET initialHeading == s.camera.heading
             loop == [center |-> center,
                      initialPitch |-> s.camera.pitch,
                      initialHeading |-> initialHeading,
                      initialRange |-> Distance(center, s.camera),
                      heading |-> initialHeading,
                      previousFrameTimestamp |-> s.now,
                      startTimestamp |-> s.now,
                      speedsUsed |-> {}]
         IN  calculateAutoOrbitFrame([s EXCEPT !.last.start = "running"], loop)

\* cesium.js:261-281: the call of startAutoOrbitAnimation up to its center;
\* with flyToCoordinates set it suspends at the await, else `pick` is what
\* scene.pickPosition returns
startAutoOrbitAnimation(s, pick) ==
    LET on == [s EXCEPT !.checked = TRUE, !.stopped = FALSE]
    IN  IF on.flyToCoordinates # null
        THEN [on EXCEPT
                !.starts = @ (+) SetToBag({adjustCoordinateHeight(on.flyToCoordinates)}),
                !.last.start = "awaiting"]
        ELSE StartWithCenter(on, pick)

\* a faulty stop, which flips the toggle instead of unchecking it
StopByFlippingToggle(s) ==
    cancelAnimationFrame([s EXCEPT !.checked = ~@, !.stopped = TRUE],
                         s.animationFrameId)

\* cesium.js:351-358
stopAutoOrbitAnimation(s) ==
    cancelAnimationFrame([s EXCEPT !.checked = FALSE, !.stopped = TRUE],
                         s.animationFrameId)

----------------------------------------------------------------------------
(* Flights, cesium.js:164-245 and 400-459, 519-524 *)

\* options.duration: undefined lets Cesium choose a positive duration
NoDuration == [defined |-> FALSE, seconds |-> 0]
Seconds(n) == [defined |-> TRUE, seconds |-> n]

\* cesium.js:403-408
showUIElements(s) == [s EXCEPT !.isUIInitialized = TRUE]

\* cesium.js:432-441: the completeCallback of performFlyTo
completeCallback(s, pick) ==
    LET shown == IF ~s.isUIInitialized THEN showUIElements(s) ELSE s
    IN  IF isAutoOrbitEnabled(shown) THEN startAutoOrbitAnimation(shown, pick)
        ELSE shown

\* the `complete` option of a flight is called
RunComplete(s, onComplete, pick) ==
    CASE onComplete = "completeCallback" -> completeCallback(s, pick)
      [] onComplete = "startAutoOrbitAnimation" -> startAutoOrbitAnimation(s, pick)
      [] OTHER -> s

\* the pose a flight ends in: `offset` around the point above its coordinates
Arrive(s, fl) ==
    SetView(s, adjustCoordinateHeight(fl.coords), fl.offset.heading,
            fl.offset.pitch, fl.offset.range)

\* cesium.js:168-175, camera.flyToBoundingSphere with a complete callback:
\* Cesium cancels the flight in progress without calling its callback; a
\* duration of 0 sets the view and calls complete at once, any other starts
\* a flight
CameraFlyToBoundingSphere(s, fl, pick) ==
    IF fl.duration.defined /\ fl.duration.seconds <= 0
    THEN RunComplete(Arrive(s, fl), fl.onComplete, pick)
    ELSE [s EXCEPT !.currentFlight = fl]

\* cesium.js:164-166: flyToBoundingSphere up to its await.  Without
\* coordinates adjustCoordinateHeight throws on `const { lat, lng } = coords`
\* and the call rejects.
flyToBoundingSphere(s, coords, offset, onComplete, duration) ==
    LET set == [s EXCEPT !.flyToCoordinates = coords]
    IN  IF coords = null
        THEN [set EXCEPT !.last.error = "TypeError"]
        ELSE [set EXCEPT !.flights = @ (+) SetToBag({[coords |-> coords,
                                                      offset |-> offset,
                                                      onComplete |-> onComplete,
                                                      duration |-> duration]})]

\* cesium.js:204-223
transitionAutoOrbit(s) ==
    LET off == stopAutoOrbitAnimation(s)
    IN  flyToBoundingSphere(off, off.flyToCoordinates,
            [heading |-> off.camera.heading, pitch |-> CAMERA_OFFSET.pitch,
             range |-> CAMERA_OFFSET.range],
            "startAutoOrbitAnimation",
            IF off.autoOrbitType = "fixed-orbit" THEN Seconds(1) ELSE Seconds(0))

\* cesium.js:233-245
updateZoomToRadius(s, range) ==
    LET off == stopAutoOrbitAnimation(s)
    IN  flyToBoundingSphere(off, off.flyToCoordinates,
            [heading |-> off.camera.heading, pitch |-> CAMERA_OFFSET.pitch,
             range |-> range],
            "startAutoOrbitAnimation", NoDuration)

\* cesium.js:427-430: performFlyTo stops the loop it finds
CancelForFlyTo(s) ==
    IF isAutoOrbitEnabled(s) THEN cancelAnimationFrame(s, s.animationFrameId) ELSE s

\* a faulty performFlyTo, which stops the loop before it looks at its coordinates
performFlyToCancellingFirst(s, coords, range, duration) ==
    LET cancelled == CancelForFlyTo(s)
    IN  IF coords = null
        THEN [cancelled EXCEPT !.last.error = "No coordinates to fly-to provided."]
        ELSE flyToBoundingSphere(cancelled, coords,
                 [heading |-> cancelled.camera.heading,
                  pitch |-> CAMERA_OFFSET.pitch, range |-> range],
                 "completeCallback", duration)

\* cesium.js:419-459
performFlyTo(s, coords, range, duration) ==
    IF coords = null
    THEN [s EXCEPT !.last.error = "No coordinates to fly-to provided."]
    ELSE LET cancelled == CancelForFlyTo(s)
         IN  flyToBoundingSphere(cancelled, coords,
                 [heading |-> cancelled.camera.heading,
                  pitch |-> CAMERA_OFFSET.pitch, range |-> range],
                 "completeCallback", duration)

\* cesium.js:519-524
zoomResetCallback(s, coords) ==
    flyToBoundingSphere(s, coords, CAMERA_OFFSET, "undefined", NoDuration)

\* a faulty setter, which cancels the pending frame for the loop to be
\* restarted with the new speed
SetSpeedAndCancelFrame(s, speed) ==
    cancelAnimationFrame([s EXCEPT !.autoOrbitCameraSpeed = speed],
                         s.animationFrameId)

\* cesium.js:183-185
setAutoOrbitCameraSpeed(s, speed) == [s EXCEPT !.autoOrbitCameraSpeed = speed]

\* cesium.js:192-199
setAutoOrbitType(s, newOrbitType) ==
    IF newOrbitType = s.autoOrbitType THEN s
    ELSE [s EXCEPT !.autoOrbitType = newOrbitType]

\* app.js updateCamera: the handler of a changed camera setting passes the
\* configured speed, orbit type and search radius on, one call after the other
updateCamera(s, cameraConfig, searchRadius) ==
    updateZoomToRadius(
        setAutoOrbitType(setAutoOrbitCameraSpeed(s, cameraConfig.speed),
                         cameraConfig.orbitType),
        searchRadius)

----------------------------------------------------------------------------
(* Event listeners, cesium.js:378-397 and 531-561 *)

\* cesium.js:378-384: the click listener of the toggle switch; the browser
\* has flipped `checked` before it runs
ToggleListener(s, pick) ==
    LET flipped == [s EXCEPT !.checked = ~@]
    IN  IF isAutoOrbitEnabled(flipped) THEN startAutoOrbitAnimation(flipped, pick)
        ELSE stopAutoOrbitAnimation(flipped)

\* what the user's drag or wheel does to the camera; Cesium ignores the
\* input while a flight is in progress
UserMoves == {"none", "rotate"}
MoveCamera(s, move) ==
    IF move = "rotate" /\ s.currentFlight.coords = null
    THEN [s EXCEPT !.camera.heading = (@ + UnitsPerRev \div 4) % UnitsPerRev]
    ELSE s

\* cesium.js:391-396: the pointerdown and wheel listeners of the canvas
CanvasListener(s) ==
    [stopAutoOrbitAnimation(s) EXCEPT !.flyToCoordinates = null]

\* cesium.js:541-545: the click listener of the zoom controls container
ZoomControlsListener(s) ==
    IF isAutoOrbitEnabled(s) THEN stopAutoOrbitAnimation(s) ELSE s

\* cesium.js:548-560: the click listeners of the three buttons;
\* camera.zoomIn and zoomOut move the camera ZOOM_FACTOR metres along its view
ZoomButtons == {"in", "out", "reset"}
ZoomButtonListener(s, button) ==
    CASE button = "in" ->
             [s EXCEPT !.camera.range = @ - ZOOM_FACTOR,
                       !.camera.zoomed = @ - 1]
      [] button = "out" ->
             [s EXCEPT !.camera.range = @ + ZOOM_FACTOR,
                       !.camera.zoomed = @ + 1]
      [] OTHER -> zoomResetCallback(s, ConfigCoordinates)

----------------------------------------------------------------------------
(* The markers and the sidebar: create-markers.js (part_005:238-687),        *)
(* sidebar.js, and updateMarkers of app.js (part_007:66-82)                 *)

\* part_005:241, 245: scales in thousandths; part_005:433: the selected scale
CENTER_MARKER_ID == "center"
defaultMarkerScale == 744
SelectedMarkerScale == 1000
\* part_005:251, 486: defaultLabelVisibility.near - 70 = 650 - 70, metres
MarkerRange == 580

\* the places the nearby searches find are "p1" and "p2", by place_id; every
\* one lies at the coordinates a marker click flies to.
\* the list getNearbyPois returns for the configuration of config.json
ConfigPois == <<"p1", "p2">>
\* the lists getNearbyPois returns for the configurations the user chooses
PoiLists == {<<"p1">>, <<"p2">>}

\* sidebar.js:22: baseSidebar, the sidebar of index.html (part_004:67-150):
\* a close button without listeners, the header with the name and the stars,
\* the overview with the address and the opening hours, the reviews
baseSidebar == [closeListeners |-> 0, name |-> null, stars |-> <<>>,
                address |-> null, openingHours |-> <<>>, reviews |-> <<>>]

Pg == [selectedMarkerId |-> selectedMarkerId,
       markerClickHandler |-> markerClickHandler, entities |-> entities,
       sidebarIsOpen |-> sidebarIsOpen, closeButtonListener |-> closeButtonListener,
       sidebar |-> sidebar, detailsRequests |-> detailsRequests,
       markerCalls |-> markerCalls, markerSvgs |-> markerSvgs,
       createdPois |-> createdPois, zoomResetController |-> zoomResetController,
       locationCall |-> locationCall, locations |-> locations]

CommitPage(m) ==
    /\ selectedMarkerId' = m.selectedMarkerId
    /\ markerClickHandler' = m.markerClickHandler
    /\ entities' = m.entities
    /\ sidebarIsOpen' = m.sidebarIsOpen
    /\ closeButtonListener' = m.closeButtonListener
    /\ sidebar' = m.sidebar
    /\ detailsRequests' = m.detailsRequests
    /\ markerCalls' = m.markerCalls
    /\ markerSvgs' = m.markerSvgs
    /\ createdPois' = m.createdPois
    /\ zoomResetController' = m.zoomResetController
    /\ locationCall' = m.locationCall
    /\ locations' = m.locations

\* the page when main (part_003:91-108) has called performFlyTo: no marker, no
\* click handler, the sidebar closed; main is still to fetch the POIs of the
\* configuration and to create their markers
PageLoaded ==
    [selectedMarkerId |-> null,
     markerClickHandler |-> null,
     entities |-> {},
     sidebarIsOpen |-> FALSE,
     closeButtonListener |-> FALSE,
     sidebar |-> baseSidebar,
     detailsRequests |-> EmptyBag,
     markerCalls |-> <<[by |-> "main", pois |-> ConfigPois, stage |-> "getNearbyPois"]>>,
     markerSvgs |-> EmptyBag,
     createdPois |-> null,
     zoomResetController |-> null,
     locationCall |-> null,
     locations |-> 0]

PageHolds(m) ==
    /\ selectedMarkerId = m.selectedMarkerId
    /\ markerClickHandler = m.markerClickHandler
    /\ entities = m.entities
    /\ sidebarIsOpen = m.sidebarIsOpen
    /\ closeButtonListener = m.closeButtonListener
    /\ sidebar = m.sidebar
    /\ detailsRequests = m.detailsRequests
    /\ markerCalls = m.markerCalls
    /\ markerSvgs = m.markerSvgs
    /\ createdPois = m.createdPois
    /\ zoomResetController = m.zoomResetController
    /\ locationCall = m.locationCall
    /\ locations = m.locations

----------------------------------------------------------------------------
(* The state machine *)

\* the module after initializeCesiumViewer (cesium.js:469-513) has run with a
\* given camera config
Constructed(cameraConfig) ==
    [checked |-> TRUE,                      \* cesium.js:369
     autoOrbitCameraSpeed |-> cameraConfig.speed,   \* cesium.js:372
     autoOrbitType |-> cameraConfig.orbitType,      \* cesium.js:375
     animationFrameId |-> 0,
     flyToCoordinates |-> null,
     isUIInitialized |-> FALSE,
     frames |-> {},
     nextFrameId |-> 1,
     starts |-> EmptyBag,
     flights |-> EmptyBag,
     currentFlight |-> NoFlight,
     camera |-> StartPose,                  \* cesium.js:500-507
     now |-> 0,
     steps |-> 0,
     stopped |-> FALSE,
     last |-> [op |-> "main", start |-> "none", error |-> NoError]]

\* the variables hold the state s
Holds(s) ==
    /\ checked = s.checked
    /\ autoOrbitCameraSpeed = s.autoOrbitCameraSpeed
    /\ autoOrbitType = s.autoOrbitType
    /\ animationFrameId = s.animationFrameId
    /\ flyToCoordinates = s.flyToCoordinates
    /\ isUIInitialized = s.isUIInitialized
    /\ frames = s.frames
    /\ nextFrameId = s.nextFrameId
    /\ starts = s.starts
    /\ flights = s.flights
    /\ currentFlight = s.currentFlight
    /\ camera = s.camera
    /\ now = s.now
    /\ steps = s.steps
    /\ stopped = s.stopped
    /\ last = s.last

\* no function call is under study
NoCall == [fn |-> "none"]

\* location.hash of a URL without a fragment: the empty string
NoHash == <<>>

\* the call has not returned; it has returned value
NotReturned == [done |-> FALSE]

Returned(value) == [done |-> TRUE, value |-> value]

\* main: the viewer is constructed, and in the same turn of the event loop
\* main flies to the configured coordinates
Init ==
    /\ Holds(performFlyTo(Constructed(ConfigCamera), ConfigCoordinates,
                          CAMERA_OFFSET.range, NoDuration))
    /\ call = NoCall
    /\ returned = NotReturned
    /\ hash = NoHash
    /\ PageHolds(PageLoaded)

WithinBounds(s) ==
    /\ s.steps <= MaxSteps
    /\ BagCardinality(s.starts) <= MaxStarts
    /\ BagCardinality(s.flights) <= MaxFlights
    /\ Abs(s.camera.zoomed) <= MaxZoomSteps

\* a step to the state s; s is computed once
Do(s) ==
    /\ \E next \in {s} : WithinBounds(next) /\ Commit(next)
    /\ UNCHANGED <<call, returned, hash, pageVars>>

\* a click on the toggle switch, which the overlay shows once the UI is initialized
ToggleClick ==
    /\ isUIInitialized
    /\ \E pick \in PickResults(St) : Do(ToggleListener(Enter(St, "toggle"), pick))

\* a pointerdown or wheel event on the canvas, and what it does to the camera
CanvasEvent ==
    \E move \in UserMoves : Do(MoveCamera(CanvasListener(Enter(St, "canvas")), move))

\* a click on a zoom button: its own listener, then the container's
ZoomControlClick ==
    /\ isUIInitialized
    /\ \E button \in ZoomButtons :
           Do(ZoomControlsListener(ZoomButtonListener(Enter(St, "zoom"), button)))

PerformFlyTo ==
    \E coords \in Coords :
        Do(performFlyTo(Enter(St, "performFlyTo"), coords, CAMERA_OFFSET.range,
                        NoDuration))

UpdateZoomToRadius ==
    \E r \in SearchRadii :
        Do(updateZoomToRadius(Enter(St, "updateZoomToRadius"), r))

TransitionAutoOrbit ==
    Do(transitionAutoOrbit(Enter(St, "transitionAutoOrbit")))

SetAutoOrbitCameraSpeed ==
    \E speed \in Speeds :
        Do(setAutoOrbitCameraSpeed(Enter(St, "setAutoOrbitCameraSpeed"), speed))

SetAutoOrbitType ==
    \E type \in OrbitTypes :
        Do(setAutoOrbitType(Enter(St, "setAutoOrbitType"), type))

\* cesium.js:273: adjustCoordinateHeight resolves and a suspended
\* startAutoOrbitAnimation goes on
StartResume ==
    \E center \in BagToSet(starts) :
        Do(StartWithCenter(
               [Enter(St, "startResume") EXCEPT !.starts = @ (-) SetToBag({center})],
               center))

\* cesium.js:166: adjustCoordinateHeight resolves and a suspended
\* flyToBoundingSphere hands its flight to the camera
FlyToResume ==
    \E fl \in BagToSet(flights) : \E pick \in PickResults(St) :
        Do(CameraFlyToBoundingSphere(
               [Enter(St, "flyToResume") EXCEPT !.flights = @ (-) SetToBag({fl})],
               fl, pick))

\* the camera's flight arrives and Cesium calls its complete callback
FlightComplete ==
    /\ currentFlight.coords # null
    /\ \E pick \in PickResults(Arrive(St, currentFlight)) :
           Do(RunComplete(Arrive(Enter(St, "flightComplete"), currentFlight),
                          currentFlight.onComplete, pick))

\* the browser runs a pending animation frame callback, dt ticks after the
\* clock was last read
Frame ==
    \E f \in frames : \E dt \in 0..MaxDt :
        Do(calculateAutoOrbitFrame(
               [Enter(St, "frame") EXCEPT !.frames = @ \ {f}, !.now = @ + dt],
               f.loop))

\* the user picks the other orbit type in the settings: updateCamera runs
\* with the new type, the speed and the search radius as they were.
\* updateCamera reads the configuration from the form (getConfigCenterConfig);
\* the listener also writes the type to the URL hash, which nothing of the
\* orbit reads: the hash is followed in SpecConfig below and left alone here.
OrbitTypeChange ==
    \E type \in OrbitTypes \ {autoOrbitType} : \E r \in SearchRadii :
        Do(updateCamera(Enter(St, "updateCamera"),
                        [speed |-> autoOrbitCameraSpeed, orbitType |-> type], r))

\* the browser runs a pending animation frame callback, and applying the pose
\* fails
FrameThrows ==
    \E f \in frames :
        Do(calculateAutoOrbitFrameThrowing(
               [Enter(St, "frameThrows") EXCEPT !.frames = @ \ {f}], f.loop))

\* performFlyTo is called with no coordinates
PerformFlyToWithoutCoordinates ==
    Do(performFlyTo(Enter(St, "performFlyToWithoutCoordinates"), null,
                    CAMERA_OFFSET.range, NoDuration))

Next ==
    \/ ToggleClick
    \/ CanvasEvent
    \/ ZoomControlClick
    \/ PerformFlyTo
    \/ UpdateZoomToRadius
    \/ TransitionAutoOrbit
    \/ SetAutoOrbitCameraSpeed
    \/ SetAutoOrbitType
    \/ StartResume
    \/ FlyToResume
    \/ FlightComplete
    \/ Frame
    \/ FrameThrows
    \/ OrbitTypeChange

Spec == Init /\ [][Next]_vars

\* the application where performFlyTo is also called without coordinates
SpecNoCoordinates == Init /\ [][Next \/ PerformFlyToWithoutCoordinates]_vars

\* what goes on by itself: a pending clampToHeightMostDetailed resolves and the
\* suspended call resumes, the camera's flight arrives, the browser runs a
\* requested animation frame callback
Resumptions == {"startResume", "flyToResume", "flightComplete", "frame", "frameThrows"}

----------------------------------------------------------------------------
(* Markers and sidebar: the handlers *)

\* the billboard scale of the entities with the ids `ids` is set to scale
Scaled(m, ids, scale) ==
    [m EXCEPT !.entities = {IF e.id \in ids THEN [e EXCEPT !.scale = scale] ELSE e : e \in @}]

\* a faulty setSelectedMarker, which leaves the previous marker enlarged
setSelectedMarkerOnly(m, marker) ==
    [(IF marker # null THEN Scaled(m, {marker}, SelectedMarkerScale) ELSE m)
        EXCEPT !.selectedMarkerId = marker]

\* part_005:419-439; marker is the id of an entity of the collection, or null
\* (undefined)
setSelectedMarker(m, marker) ==
    LET previous == IF m.selectedMarkerId # null THEN {m.selectedMarkerId} ELSE {}
        reset == Scaled(m, previous, defaultMarkerScale)
        enlarged == IF marker # null THEN Scaled(reset, {marker}, SelectedMarkerScale)
                    ELSE reset
    IN  [enlarged EXCEPT !.selectedMarkerId = marker]

\* sidebar.js:59-72
toggleSidebar(m, action) ==
    IF action = "open" THEN [m EXCEPT !.sidebarIsOpen = TRUE]
    ELSE LET closed == [m EXCEPT !.sidebarIsOpen = FALSE]
         IN  IF ~closed.closeButtonListener THEN closed
             ELSE [closed EXCEPT
                      !.sidebar.closeListeners = IF @ > 0 THEN @ - 1 ELSE @,
                      !.closeButtonListener = FALSE]

\* sidebar.js:34-52: the children of #sidebar are replaced by clones of the
\* base sidebar's; the new close button has no listener
resetSidebar(m) == [m EXCEPT !.sidebar = baseSidebar]

\* sidebar.js:79-88
addCloseButtonListener(m) ==
    [m EXCEPT !.closeButtonListener = TRUE, !.sidebar.closeListeners = @ + 1]

\* sidebar.js:96-104: updateSidebarElements up to `await getPlaceDetails`.
\* resetSidebar awaits nothing, so the reset runs within the call, and the
\* rest in the microtask that follows the caller's synchronous code
updateSidebarElements(m, placeId) ==
    [addCloseButtonListener(resetSidebar(m)) EXCEPT
        !.detailsRequests = @ (+) SetToBag({placeId})]

\* sidebar.js:106-108 with the details of place: updatePlaceHeader
\* (part_003:26-68) assigns the name and appends the stars, updatePlaceOverview
\* (part_001:24-54) assigns the address and appends the opening hours,
\* updatePlaceReviews (update-place-reviews.js:24-42) appends the reviews
RenderPlaceDetails(m, place) ==
    [m EXCEPT !.sidebar.name = place,
              !.sidebar.stars = Append(@, place),
              !.sidebar.address = place,
              !.sidebar.openingHours = Append(@, place),
              !.sidebar.reviews = Append(@, place)]

\* part_005:473-482 for the picked marker placeId
SelectOrDeselect(m, placeId) ==
    IF m.selectedMarkerId = placeId
    THEN toggleSidebar(setSelectedMarker(m, null), "close")
    ELSE updateSidebarElements(
             toggleSidebar(setSelectedMarker(m, placeId), "open"), placeId)

\* pois.find((poi) => poi.place_id === placeId): found or not (undefined)
InPois(pois, placeId) == \E i \in DOMAIN pois : pois[i] = placeId

\* what a left click on the canvas may hit: an entity's billboard, or
\* something that is not a marker (the tiles, the sky)
NotAMarker == "none"
ClickTargets(m) == {e.id : e \in m.entities} \cup {NotAMarker}

\* part_005:450-482: handleClickOnMarker up to the fly-to
handleClickOnMarker(m, target) ==
    IF target = NotAMarker \/ target = CENTER_MARKER_ID THEN m
    ELSE SelectOrDeselect(m, target)

\* part_005:484-492: the fly-to of a click on a POI marker that the list of
\* the handler holds; without the POI `currentPoi.geometry` throws a TypeError
\* before performFlyTo is called
FlyToClicked(s, target, pois) ==
    IF target = NotAMarker \/ target = CENTER_MARKER_ID \/ ~InPois(pois, target)
    THEN s
    ELSE performFlyTo(s, "B", MarkerRange, Seconds(1))

\* part_005:631-639
ResetSelectionIfGone(m, pois) ==
    IF m.selectedMarkerId # null /\ ~InPois(pois, m.selectedMarkerId)
    THEN toggleSidebar([m EXCEPT !.selectedMarkerId = null], "close")
    ELSE m

\* part_005:625-652: createMarkers up to `await clampToHeightMostDetailed`,
\* called by the call i of main or updateMarkers
createMarkers(m, i) ==
    [ResetSelectionIfGone(m, m.markerCalls[i].pois) EXCEPT
        !.markerCalls[i].stage = "clamp",
        !.createdPois = m.markerCalls[i].pois]

\* part_007:74-78: getNearbyPois has resolved for updateMarkers, which removes
\* all entities and calls createMarkers; main (part_003:99-101) removes none
PoisFetched(m, i) ==
    createMarkers(IF m.markerCalls[i].by = "updateMarkers"
                  THEN [m EXCEPT !.entities = {}] ELSE m, i)

\* the ids of the markers of a POI list: one per POI and the center marker
MarkerIds(pois) == [i \in 1..(Len(pois) + 1) |->
                       IF i <= Len(pois) THEN pois[i] ELSE CENTER_MARKER_ID]

RECURSIVE BagOfSeq(_)
BagOfSeq(seq) ==
    IF seq = <<>> THEN EmptyBag ELSE SetToBag({Head(seq)}) (+) BagOfSeq(Tail(seq))

\* part_005:655-684: the clamp has resolved; every forEach callback suspends at
\* `await createMarkerSvg`, then the click handler is replaced by one bound to
\* pois, and createMarkers returns
ClampResolved(m, i) ==
    [m EXCEPT !.markerCalls[i].stage = "returned",
              !.markerSvgs = @ (+) BagOfSeq(MarkerIds(m.markerCalls[i].pois)),
              !.markerClickHandler = m.markerCalls[i].pois]

\* part_005:661-677: createMarkerSvg has resolved for the marker id;
\* entities.add throws when the collection holds an entity with that id
MarkerSvgResolved(m, id) ==
    LET resumed == [m EXCEPT !.markerSvgs = @ (-) SetToBag({id})]
    IN  IF \E e \in m.entities : e.id = id THEN resumed
        ELSE LET added == [resumed EXCEPT !.entities =
                              @ \cup {[id |-> id, scale |-> defaultMarkerScale]}]
             IN  IF added.selectedMarkerId = id THEN setSelectedMarker(added, id)
                 ELSE added

\* part_007:66-74: updateMarkers up to `await getNearbyPois`, which will
\* resolve with pois
updateMarkers(m, pois) ==
    [m EXCEPT !.markerCalls = Append(@, [by |-> "updateMarkers", pois |-> pois,
                                         stage |-> "getNearbyPois"])]

----------------------------------------------------------------------------
(* Markers and sidebar: the state machine *)

\* a step of the page and of the orbit controller, within the bounds
PageDo(m, s) ==
    /\ \E next \in {s} : WithinBounds(next) /\ Commit(next)
    /\ BagCardinality(m.detailsRequests) <= MaxRequests
    /\ Len(m.markerCalls) <= 1 + MaxUpdates
    /\ CommitPage(m)
    /\ UNCHANGED <<call, returned, hash>>

\* a left click on the canvas: the pointerdown listener of cesium.js:390-397,
\* then the click action of the marker click handler
MarkerClick ==
    /\ markerClickHandler # null
    /\ \E target \in ClickTargets(Pg) :
           PageDo(handleClickOnMarker(Pg, target),
                  FlyToClicked(CanvasListener(St), target, markerClickHandler))

\* a click on the close button of the open sidebar: its listener,
\* sidebar.js:82-85
CloseButtonClick ==
    /\ sidebarIsOpen
    /\ sidebar.closeListeners > 0
    /\ PageDo(toggleSidebar(setSelectedMarker(Pg, null), "close"), St)

\* the places service answers a getPlaceDetails request
PlaceDetailsArrive ==
    \E place \in BagToSet(detailsRequests) :
        PageDo(RenderPlaceDetails(
                   [Pg EXCEPT !.detailsRequests = @ (-) SetToBag({place})], place),
               St)

\* the user changes the location, the place types, the density or the radius
\* (place-settings.js, share.js): updateMarkers
UpdateMarkers ==
    \E pois \in PoiLists : PageDo(updateMarkers(Pg, pois), St)

\* getNearbyPois resolves; main calls it when its performFlyTo has returned
GetNearbyPoisResolves ==
    \E i \in DOMAIN markerCalls :
        /\ markerCalls[i].stage = "getNearbyPois"
        /\ markerCalls[i].by = "main" =>
               \A fl \in BagToSet(flights) : fl.coords # ConfigCoordinates
        /\ PageDo(PoisFetched(Pg, i), St)

\* clampToHeightMostDetailed resolves for a createMarkers call
ClampResolves ==
    \E i \in DOMAIN markerCalls :
        /\ markerCalls[i].stage = "clamp"
        /\ PageDo(ClampResolved(Pg, i), St)

\* createMarkerSvg resolves for a marker
MarkerSvgResolves ==
    \E id \in BagToSet(markerSvgs) : PageDo(MarkerSvgResolved(Pg, id), St)

\* the flights of main and of the clicks go on as in Spec (FlyToResume,
\* FlightComplete, StartResume), here without the history of the orbit's steps
FlightBegins ==
    \E fl \in BagToSet(flights) : \E pick \in PickResults(St) :
        PageDo(Pg, CameraFlyToBoundingSphere(
                       [St EXCEPT !.flights = @ (-) SetToBag({fl})], fl, pick))

FlightArrives ==
    /\ currentFlight.coords # null
    /\ \E pick \in PickResults(Arrive(St, currentFlight)) :
           PageDo(Pg, RunComplete(Arrive(St, currentFlight),
                                  currentFlight.onComplete, pick))

OrbitBegins ==
    \E center \in BagToSet(starts) :
        PageDo(Pg, StartWithCenter([St EXCEPT !.starts = @ (-) SetToBag({center})],
                                   center))

\* the application with the markers of its configuration and its sidebar:
\* main creates the markers, the user clicks on the canvas and on the close
\* button, and the places service answers
SpecSidebar ==
    Init /\ [][\/ MarkerClick
               \/ CloseButtonClick
               \/ PlaceDetailsArrive
               \/ GetNearbyPoisResolves
               \/ ClampResolves
               \/ MarkerSvgResolves
               \/ FlightBegins
               \/ FlightArrives
               \/ OrbitBegins]_vars

\* the application with its markers and the selection as the user changes the
\* settings of the places, one change after the createMarkers call of the
\* change before has returned
SpecSelection ==
    Init /\ [][\/ MarkerClick
               \/ CloseButtonClick
               \/ /\ \A i \in DOMAIN markerCalls : markerCalls[i].stage = "returned"
                  /\ UpdateMarkers
               \/ GetNearbyPoisResolves
               \/ ClampResolves
               \/ MarkerSvgResolves
               \/ FlightBegins
               \/ FlightArrives
               \/ OrbitBegins]_vars

\* the application with its markers as the user, once the markers of the
\* configuration are on the map, changes the settings of the places at any
\* time, also before the updateMarkers call of the change before has finished
SpecMarkers ==
    Init /\ [][\/ /\ Len(markerCalls) = 1 =>
                         markerCalls[1].stage = "returned" /\ markerSvgs = EmptyBag
                  /\ UpdateMarkers
               \/ GetNearbyPoisResolves
               \/ ClampResolves
               \/ MarkerSvgResolves
               \/ FlightBegins
               \/ FlightArrives
               \/ OrbitBegins]_vars

----------------------------------------------------------------------------
(* The location and the zoom-reset button: updateLocation and              *)
(* updateZoomControl of app.js (part_007:48-61, 84-113)                     *)

\* part_007:48-58: updateLocation up to `await performFlyTo(coordinates)`
updateLocation(m, coordinates) ==
    [m EXCEPT !.locationCall = coordinates, !.locations = @ + 1]

\* part_007:87-113: the listener of the controller before is aborted, a new
\* controller is created and a listener registered with its signal
updateZoomControl(m, coords) == [m EXCEPT !.zoomResetController = coords]

\* the click listeners of the zoom-reset button, in the order registered: the
\* one of initializeZoomControl (cesium.js:555-559), registered without a
\* signal, then the one updateZoomControl registered last (part_007:105-111)
ZoomResetListeners(s, m) ==
    LET initial == zoomResetCallback(s, ConfigCoordinates)
    IN  IF m.zoomResetController = null THEN initial
        ELSE zoomResetCallback(initial, m.zoomResetController)

\* the user chooses a new location (share.js:105-110), while no updateLocation
\* is awaiting its fly-to
UpdateLocation ==
    /\ locationCall = null
    /\ locations < MaxLocations
    /\ \E coordinates \in Coords :
           PageDo(updateLocation(Pg, coordinates),
                  performFlyTo(St, coordinates, CAMERA_OFFSET.range, NoDuration))

\* part_007:58-59: the flight of updateLocation's performFlyTo has begun and
\* the call resumes with updateZoomControl(coordinates)
UpdateLocationResumes ==
    /\ locationCall # null
    /\ \A fl \in BagToSet(flights) :
           ~(fl.coords = locationCall /\ fl.onComplete = "completeCallback")
    /\ PageDo(updateZoomControl([Pg EXCEPT !.locationCall = null], locationCall), St)

\* a click on the zoom-reset button: its listeners, then the container's
\* (cesium.js:541-545)
ZoomResetClick ==
    /\ isUIInitialized
    /\ \E next \in {ZoomControlsListener(ZoomResetListeners(St, Pg))} :
           /\ BagCardinality(next.flights) <= MaxResetFlights
           /\ Commit(next)
    /\ UNCHANGED <<call, returned, hash, pageVars>>

\* the application as the user chooses new locations and clicks on the
\* zoom-reset button
SpecLocation ==
    Init /\ [][\/ UpdateLocation
               \/ UpdateLocationResumes
               \/ ZoomResetClick
               \/ FlightBegins
               \/ FlightArrives
               \/ OrbitBegins]_vars

\* the application whose promises resolve, whose flights arrive and whose
\* animation frames are run
SpecLive ==
    /\ Spec
    /\ WF_vars(StartResume)
    /\ WF_vars(FlyToResume)
    /\ WF_vars(FlightComplete)
    /\ WF_vars(Frame \/ FrameThrows)

----------------------------------------------------------------------------
(* Function calls.  A function of the application that computes its result *)
(* from its arguments is studied by a state machine of its own: it begins   *)
(* with a call, the arguments drawn from bounded sets, and its one step     *)
(* lets the call return.  The orbit controller stays as constructed.        *)

orbitVars == <<checked, autoOrbitCameraSpeed, autoOrbitType, animationFrameId,
               flyToCoordinates, isUIInitialized, frames, nextFrameId, starts,
               flights, currentFlight, camera, now, steps, stopped, last>>

\* a call to fn with the arguments args, not yet returned
Calls(fn, args) ==
    /\ Holds(Constructed(ConfigCamera))
    /\ call = [fn |-> fn, args |-> args]
    /\ returned = NotReturned
    /\ hash = NoHash
    /\ PageHolds(PageLoaded)

\* the call to fn returns value
Returns(fn, value) ==
    /\ call.fn = fn
    /\ ~returned.done
    /\ returned' = Returned(value)
    /\ UNCHANGED <<orbitVars, call, hash, pageVars>>

----------------------------------------------------------------------------
(* Nearby places: getNearbyPois of places.js *)

\* location types of poiConfig.types
MaxTypes == 2
\* places one nearby search finds
MaxFound == 2
\* distinct places in the area: place ids 1..MaxPlaceId
MaxPlaceId == 2
\* poiConfig.density
MaxDensity == 3

Max(a, b) == IF a >= b THEN a ELSE b

\* Math.round(n / d) for naturals n and d > 0: to the nearest integer, halves up
MathRound(n, d) == (2 * n + d) \div (2 * d)

\* Array.prototype.flat() of an array of arrays
RECURSIVE Flat(_)
Flat(arrays) ==
    IF arrays = <<>> THEN <<>> ELSE Head(arrays) \o Flat(Tail(arrays))

\* array.slice(0, end)
SliceTo(array, end) == SubSeq(array, 1, IF end > Len(array) THEN Len(array) ELSE end)

\* a faulty reduction, without the minimum of one place per type
reducePlacesWithoutMinimum(placesOfOneType, totalNumberOfPlaces, density) ==
    SliceTo(placesOfOneType,
            MathRound(Len(placesOfOneType) * density, totalNumberOfPlaces))

\* a faulty reduction, which keeps all the places of a type
reducePlacesKeepingAll(placesOfOneType, totalNumberOfPlaces, density) ==
    placesOfOneType

\* part_005:126-132
reducePlaces(placesOfOneType, totalNumberOfPlaces, density) ==
    LET numberOfPlaces ==
            MathRound(Len(placesOfOneType) * density, totalNumberOfPlaces)
    IN  SliceTo(placesOfOneType, Max(1, numberOfPlaces))

\* a faulty filter, which keeps every place
RECURSIVE KeepEveryPlace(_, _)
KeepEveryPlace(uniquePlaces, places) ==
    IF places = <<>> THEN uniquePlaces
    ELSE KeepEveryPlace(Append(uniquePlaces, Head(places)), Tail(places))

\* part_005:141-147: places.reduce(..., uniquePlaces) from the accumulator on
RECURSIVE UniquePlaces(_, _)
UniquePlaces(uniquePlaces, places) ==
    IF places = <<>> THEN uniquePlaces
    ELSE LET place == Head(places)
             pushed ==
                 IF ~\E i \in DOMAIN uniquePlaces :
                        uniquePlaces[i].place_id = place.place_id
                 THEN Append(uniquePlaces, place)
                 ELSE uniquePlaces
         IN  UniquePlaces(pushed, Tail(places))

\* part_005:115-147: getNearbyPois from the results of its searches on
getNearbyPois(placesResults, density) ==
    LET allPlaces == Flat(placesResults)
        totalNumberOfPlaces == Len(allPlaces)
        places ==
            IF totalNumberOfPlaces <= density
            THEN allPlaces
            ELSE Flat([i \in DOMAIN placesResults |->
                          reducePlaces(placesResults[i], totalNumberOfPlaces,
                                       density)])
    IN  UniquePlaces(<<>>, places)

\* what nearbySearch resolves with for the type at index `type`, given the
\* ids of the places it finds: each result is an object of its own
Found(ids, type) ==
    [rank \in DOMAIN ids |-> [place_id |-> ids[rank], type |-> type, rank |-> rank]]

\* the ids one search may find
IdLists == UNION {[1..n -> 1..MaxPlaceId] : n \in 0..MaxFound}

\* the searches' finds for the types, from the ids each has found
SearchResults(ids) == [type \in DOMAIN ids |-> Found(ids[type], type)]

\* place ids are only compared with one another, so the places found are
\* numbered in the order in which the searches first find them
NumberedAsFound(ids) ==
    LET found == Flat(ids)
    IN  \A i \in DOMAIN found :
            found[i] = 1 \/ \E j \in 1..(i - 1) : found[j] = found[i] - 1

InitPois ==
    \E types \in 0..MaxTypes : \E ids \in [1..types -> IdLists] :
        /\ NumberedAsFound(ids)
        /\ \E density \in 0..MaxDensity :
               Calls("getNearbyPois",
                     [placesResults |-> SearchResults(ids), density |-> density])

GetNearbyPoisReturns ==
    Returns("getNearbyPois", getNearbyPois(call.args.placesResults, call.args.density))

SpecPois == InitPois /\ [][GetNearbyPoisReturns]_vars

\* ---------------------------------------------------------------------------
\* The custom configuration in the URL hash (demo/src/utils/config.js)
\* ---------------------------------------------------------------------------

\* calls of setCustomConfig in one behaviour
MaxSets == 2

\* JavaScript values: undefined, numbers, strings (a word, or the decimal
\* text of a number) and arrays
UndefinedValue == [type |-> "undefined"]
Null == [type |-> "null"]
Num(n) == [type |-> "number", number |-> n]
NaN == [type |-> "number", nan |-> TRUE]
Str(text) == [type |-> "string", text |-> text]
Decimal(n) == [type |-> "string", decimal |-> n]
Arr(items) == [type |-> "array", items |-> items]

\* config.js:90: the truth of a value in a condition
Truthy(value) ==
    CASE value.type = "number" -> value # NaN /\ value.number # 0
      [] value.type = "string" -> value # Str("")
      [] value.type = "array" -> TRUE
      [] OTHER -> FALSE

\* config.js:95,99: the string URLSearchParams stores for a value
String(value) ==
    CASE value.type = "number" -> IF value = NaN THEN Str("NaN") ELSE Decimal(value.number)
      [] value.type = "string" -> value
      [] OTHER -> Str(value.type)

\* config.js:46-69: Number(string)
Number(string) ==
    IF "decimal" \in DOMAIN string THEN Num(string.decimal)
    ELSE IF string = Str("") THEN Num(0)
    ELSE NaN

\* URLSearchParams: a list of name-value pairs
ParamsGet(params, name) ==
    IF \E i \in DOMAIN params : params[i].name = name
    THEN params[CHOOSE i \in DOMAIN params :
                    /\ params[i].name = name
                    /\ \A j \in 1..(i - 1) : params[j].name # name].value
    ELSE Null

RECURSIVE ParamsGetAll(_, _)
ParamsGetAll(params, name) ==
    IF params = <<>> THEN <<>>
    ELSE (IF Head(params).name = name THEN <<Head(params).value>> ELSE <<>>)
         \o ParamsGetAll(Tail(params), name)

RECURSIVE ParamsDelete(_, _)
ParamsDelete(params, name) ==
    IF params = <<>> THEN <<>>
    ELSE (IF Head(params).name = name THEN <<>> ELSE <<Head(params)>>)
         \o ParamsDelete(Tail(params), name)

ParamsAppend(params, name, value) ==
    Append(params, [name |-> name, value |-> String(value)])

\* set: the first pair of the name takes the value and the others go; a name
\* not in the list is appended
ParamsSet(params, name, value) ==
    IF \E i \in DOMAIN params : params[i].name = name
    THEN LET first == CHOOSE i \in DOMAIN params :
                          /\ params[i].name = name
                          /\ \A j \in 1..(i - 1) : params[j].name # name
         IN  SubSeq(params, 1, first - 1)
             \o <<[name |-> name, value |-> String(value)]>>
             \o ParamsDelete(SubSeq(params, first + 1, Len(params)), name)
    ELSE ParamsAppend(params, name, value)

RECURSIVE ParamsAppendAll(_, _, _)
ParamsAppendAll(params, name, items) ==
    IF items = <<>> THEN params
    ELSE ParamsAppendAll(ParamsAppend(params, name, Head(items)), name, Tail(items))

\* config.js:105: window.location.hash = params; the hash reads back as "#"
\* and the pairs, or as the empty string when there is no pair
AssignHash(params) ==
    IF params = <<>> THEN NoHash ELSE <<Str("#")>> \o params

\* config.js:40,88: new URLSearchParams(window.location.hash.replace("#", ""))
URLSearchParams(locationHash) ==
    IF locationHash # <<>> /\ Head(locationHash) = Str("#")
    THEN Tail(locationHash)
    ELSE locationHash

\* config.js:87-107: setCustomConfig; the hash it leaves
setCustomConfig(locationHash, parameter, value) ==
    LET params == URLSearchParams(locationHash)
    IN  AssignHash(
            IF Truthy(value)
            THEN IF value.type = "array"
                 THEN ParamsAppendAll(ParamsDelete(params, parameter), parameter, value.items)
                 ELSE ParamsSet(params, parameter, value)
            ELSE ParamsDelete(params, parameter))

\* the parameters of the configuration, by their names in the hash
CoordinateParameters == {"location.coordinates.lat", "location.coordinates.lng"}
NumberParameters ==
    CoordinateParameters \cup {"poi.searchRadius", "poi.density", "camera.speed"}
Parameters == NumberParameters \cup {"poi.types", "camera.orbitType"}

\* config.js:39-78: getCustomConfig; the object it returns, as a function
\* from the names of the parameters it holds to their values
getCustomConfig(locationHash) ==
    LET params == URLSearchParams(locationHash)
        held == {p \in Parameters :
                    IF p \in CoordinateParameters
                    THEN \A q \in CoordinateParameters : Truthy(ParamsGet(params, q))
                    ELSE Truthy(ParamsGet(params, p))}
    IN  [p \in held |->
            IF p \in NumberParameters THEN Number(ParamsGet(params, p))
            ELSE IF p = "poi.types" THEN Arr(ParamsGetAll(params, p))
            ELSE ParamsGet(params, p)]

\* the values the admin UI sets a parameter to
ValuesOf(parameter) ==
    CASE parameter = "location.coordinates.lat" -> {Num(0), Num(48)}
      [] parameter = "location.coordinates.lng" -> {Num(11)}
      [] parameter = "poi.types" ->
            {Arr(<<>>), Arr(<<Str("cafe")>>), Arr(<<Str("park"), Str("cafe")>>)}
      [] parameter = "poi.searchRadius" -> {Num(500)}
      [] parameter = "poi.density" -> {Num(0), Num(3)}
      [] parameter = "camera.orbitType" -> {Str(type) : type \in OrbitTypes}
      [] parameter = "camera.speed" -> {Num(speed) : speed \in Speeds}

\* the page is opened without a hash; no setCustomConfig has been called
InitConfig ==
    Calls("none", <<>>)

\* setCustomConfig(parameter, value); the call is kept with what
\* getCustomConfig returned before it, and with the values last set
SetCustomConfig ==
    \E parameter \in Parameters : \E value \in ValuesOf(parameter) \cup {UndefinedValue} :
        LET sets == IF call.fn = "none" THEN 0 ELSE call.sets
            latest == IF call.fn = "none" THEN [p \in Parameters |-> UndefinedValue]
                      ELSE call.latest
        IN  /\ sets < MaxSets
            /\ hash' = setCustomConfig(hash, parameter, value)
            /\ call' = [fn |-> "setCustomConfig",
                        args |-> [parameter |-> parameter, value |-> value],
                        before |-> getCustomConfig(hash),
                        latest |-> [latest EXCEPT ![parameter] = value],
                        sets |-> sets + 1]
            /\ returned' = NotReturned
            /\ UNCHANGED <<orbitVars, pageVars>>

\* getCustomConfig()
GetCustomConfig ==
    /\ ~returned.done
    /\ returned' = Returned(getCustomConfig(hash))
    /\ UNCHANGED <<orbitVars, call, hash, pageVars>>

SpecConfig == InitConfig /\ [][SetCustomConfig \/ GetCustomConfig]_vars

\* ---------------------------------------------------------------------------
\* The star rating of a place (sidebar/update-star-rating.js)
\* ---------------------------------------------------------------------------

\* ratings are given in tenths: 0, 0.1, ... up to MaxRating / 10, which takes
\* in the ratings above 5
MaxRating == 55

\* the call has thrown error
Thrown(error) == [done |-> TRUE, error |-> error]

\* the exponent E of the double nearest to tenths / 10: 2^E <= it < 2^(E + 1),
\* for ratings from 0.1 to 5
Exponent(tenths) ==
    CASE tenths >= 40 -> 2
      [] tenths >= 20 -> 1
      [] tenths >= 10 -> 0
      [] tenths >= 5 -> -1
      [] tenths >= 3 -> -2
      [] tenths >= 2 -> -3
      [] OTHER -> -4

RECURSIVE TwoToThe(_)
TwoToThe(n) == IF n = 0 THEN 1 ELSE 2 * TwoToThe(n - 1)

\* the last decimal digit of 2^n, for n >= 1
LastDigitOfTwoToThe(n) ==
    CASE n % 4 = 1 -> 2
      [] n % 4 = 2 -> 4
      [] n % 4 = 3 -> 8
      [] OTHER -> 6

\* IEEE 754: the double nearest to tenths / 10 is
\* tenths / 10 + DoubleError(tenths) / (10 * 2^56). With ulp = 2^(E - 52) the
\* double is ulp * round(tenths / (10 * ulp)), and the remainder of
\* tenths * 2^(52 - E) by 10 tells which way the rounding goes (it is never 5).
DoubleError(tenths) ==
    LET E == Exponent(tenths)
        remainder == (tenths * LastDigitOfTwoToThe(52 - E)) % 10
    IN  TwoToThe(E + 4) * (IF remainder < 5 THEN -remainder ELSE 10 - remainder)

\* the double of a number below 1 given in tenths, as tenths and error
Double(tenths) == [tenths |-> tenths, error |-> DoubleError(tenths)]

\* update-star-rating.js:46: rating % 1, which is exact
DecimalPartOf(rating) == [tenths |-> rating % 10, error |-> DoubleError(rating)]

\* a >= b for doubles below 1; the errors are far smaller than a tenth
AtLeast(a, b) ==
    a.tenths > b.tenths \/ (a.tenths = b.tenths /\ a.error >= b.error)

\* Math.floor and Math.ceil of a rating
MathFloor(rating) == rating \div 10
MathCeil(rating) == (rating + 9) \div 10

\* new Array(length).fill(value)
ArrayFill(length, value) == [i \in 1..length |-> value]

\* update-star-rating.js:41-69: generateStarRatingSVGs; what it returns or throws
generateStarRatingSVGs(rating) ==
    IF rating = 0 \/ rating < 0 \/ rating > 50
    THEN Thrown("Invalid rating")
    ELSE LET decimalPart == DecimalPartOf(rating)
             hasHalfStar == AtLeast(decimalPart, Double(4)) /\ AtLeast(Double(7), decimalPart)
             fullStars == IF ~hasHalfStar /\ AtLeast(decimalPart, Double(7))
                          THEN MathCeil(rating)
                          ELSE MathFloor(rating)
             emptyStars == 5 - fullStars - (IF hasHalfStar THEN 1 ELSE 0)
         IN  IF emptyStars < 0 THEN Thrown("RangeError")
             ELSE Returned(ArrayFill(fullStars, "full")
                           \o (IF hasHalfStar THEN <<"half">> ELSE <<>>)
                           \o ArrayFill(emptyStars, "empty"))

InitStars == \E rating \in 0..MaxRating : Calls("generateStarRatingSVGs", rating)

GenerateStarRatingSVGsReturns ==
    /\ call.fn = "generateStarRatingSVGs"
    /\ ~returned.done
    /\ returned' = generateStarRatingSVGs(call.args)
    /\ UNCHANGED <<orbitVars, call, hash, pageVars>>

SpecStars == InitStars /\ [][GenerateStarRatingSVGsReturns]_vars

----------------------------------------------------------------------------
(* Vocabulary of the claims *)

\* no fly-to is under way and no start awaits its center
Quiescent ==
    /\ currentFlight.coords = null
    /\ flights = EmptyBag
    /\ starts = EmptyBag

\* the toggle switch tells whether an orbit frame callback is scheduled
InSync == checked <=> frames # {}

\* the step ran calculateAutoOrbitFrame: only a frame requests a new frame
FrameApplied == nextFrameId' # nextFrameId

\* the handlers of a manual camera interaction
ManualOps == {"canvas", "zoom", "performFlyTo", "updateZoomToRadius",
              "transitionAutoOrbit"}

----------------------------------------------------------------------------
(* Claims *)

\* C1: in every reachable state at most one auto-orbit loop is active, that
\* is, at most one orbit frame callback is pending.
C1_AtMostOneLoop == Cardinality(frames) <= 1

\* C2: no operation leaves the controller in a quiescent state in which the
\* toggle is checked with no frame callback scheduled, or unchecked with one
\* scheduled.
C2_NoOperationDesynchronises ==
    [][(Quiescent' /\ ~InSync') => (Quiescent /\ ~InSync)]_vars

\* C3: after stopAutoOrbitAnimation has returned, no orbit frame applies a
\* camera pose until startAutoOrbitAnimation is invoked again.
C3_NoFrameAfterStop == [][FrameApplied => ~stopped']_vars

C5_AbortIsSilent ==
    [][/\ flyToCoordinates = null =>
              LET r == startAutoOrbitAnimation(St, Undefined)
              IN  /\ r.last.start = "aborted"
                  /\ r.frames = frames
                  /\ r.nextFrameId = nextFrameId
                  /\ r.starts = starts
                  /\ r.camera = camera
                  /\ r.last.error = last.error
       /\ last'.start = "aborted" =>
              /\ flyToCoordinates' = null
              /\ frames' = frames
              /\ nextFrameId' = nextFrameId
              /\ animationFrameId' = animationFrameId
              /\ starts' = starts
              /\ last'.error = NoError
              /\ CASE last'.op = "flightComplete" ->
                          camera' = Arrive(St, currentFlight).camera
                   [] last'.op = "flyToResume" ->
                          \E fl \in BagToSet(flights) : camera' = Arrive(St, fl).camera
                   [] OTHER -> camera' = camera
      ]_vars

\* a start was aborted for lack of a center
C5_Witness == last.start = "aborted" /\ last.op = "toggle"

\* C6: once the synchronous part of the handler of a manual camera interaction
\* has run in a state with an orbit loop running, no orbit frame callback is
\* pending.
C6_ManualInteractionStopsLoop ==
    [][(last'.op \in ManualOps /\ steps' # steps /\ frames # {}) => frames' = {}]_vars

\* the pose a loop that starts in this step captures: the camera's, once the
\* flight that completes in the step has arrived
PoseAtStart ==
    IF last'.op = "flightComplete" THEN Arrive(St, currentFlight).camera ELSE camera

\* C7: when a flight of performFlyTo completes with the toggle checked, a new
\* orbit loop is started (at once, or once its center is adjusted), with
\* initialHeading, initialPitch and initialRange captured from the camera
\* after the flight, relative to the loop's center; with the toggle unchecked
\* no loop is started.
C7_CompletionRestartsOrbit ==
    [][/\ (steps' # steps /\ last'.op = "flightComplete"
              /\ currentFlight.onComplete = "completeCallback") =>
              IF checked
              THEN \/ /\ last'.start = "awaiting"
                      /\ starts' = starts
                             (+) SetToBag({adjustCoordinateHeight(flyToCoordinates)})
                   \/ /\ last'.start = "running"
                      /\ \E g \in frames' \ frames :
                             g.loop.center = ViewCenter(PoseAtStart)
              ELSE last'.start = "none" /\ frames' = frames /\ starts' = starts
       /\ (steps' # steps /\ last'.op \in {"flightComplete", "startResume"}
              /\ last'.start = "running") =>
              \E g \in frames' \ frames :
                  /\ g.loop.initialHeading = PoseAtStart.heading
                  /\ g.loop.initialPitch = PoseAtStart.pitch
                  /\ g.loop.initialRange = Distance(g.loop.center, PoseAtStart)
      ]_vars

\* C8: an orbit loop and a fly-to transition are never active at the same
\* time (the camera holds at most one flight, so at most one is outstanding).
C8_NeverLoopAndFlight == ~(frames # {} /\ currentFlight.coords # null)

\* the frame callback that ran in this step and the one it requested
FiredFrames == frames \ frames'
RequestedFrames == frames' \ frames

\* C9: setAutoOrbitCameraSpeed and setAutoOrbitType change the stored speed
\* and orbit type and nothing else (no frame is cancelled or requested, the
\* loops' closures, the toggle and flyToCoordinates stay), and the frame that
\* runs next turns by the stored speed and poses by the stored orbit type.
C9_SettersDoNotInterrupt ==
    [][/\ (steps' # steps /\ last'.op = "setAutoOrbitCameraSpeed") =>
              /\ autoOrbitType' = autoOrbitType
              /\ UNCHANGED <<checked, animationFrameId, flyToCoordinates,
                             isUIInitialized, frames, nextFrameId, starts, flights,
                             currentFlight, camera, now, stopped>>
       /\ (steps' # steps /\ last'.op = "setAutoOrbitType") =>
              /\ autoOrbitCameraSpeed' = autoOrbitCameraSpeed
              /\ UNCHANGED <<checked, animationFrameId, flyToCoordinates,
                             isUIInitialized, frames, nextFrameId, starts, flights,
                             currentFlight, camera, now, stopped>>
       /\ (steps' # steps /\ last'.op = "frame") =>
              \E f \in FiredFrames : \E g \in RequestedFrames :
                  LET turned == g.loop.heading - g.loop.initialHeading
                  IN  /\ g.loop.heading = f.loop.heading
                             + Radian(now' - f.loop.previousFrameTimestamp,
                                      autoOrbitCameraSpeed)
                      /\ g.loop.center = f.loop.center
                      /\ g.loop.initialHeading = f.loop.initialHeading
                      /\ g.loop.initialPitch = f.loop.initialPitch
                      /\ g.loop.initialRange = f.loop.initialRange
                      /\ camera'.pitch =
                             FramePitch(autoOrbitType, f.loop.initialPitch, turned)
                      /\ camera'.range =
                             FrameRange(autoOrbitType, f.loop.initialRange, turned)
                      /\ camera'.target = f.loop.center
      ]_vars

\* a loop has turned by two speeds: the speed was set while it ran, and the
\* loop went on
C9_Witness ==
    \E f \in frames : Cardinality(f.loop.speedsUsed) = 2

\* the heading a run has turned by, given the one speed its frames used
TurnOfRun(loop) ==
    Radian(loop.previousFrameTimestamp - loop.startTimestamp,
           CHOOSE speed \in loop.speedsUsed : TRUE)

\* C10: each frame adds elapsed * (speed / 60) revolutions to the heading,
\* elapsed being the time since the loop's previous frame; the heading of a
\* run never decreases and stays with speed 0; at constant speed the heading
\* turned by a run is that of the run's whole elapsed time, however it was
\* split into frames (10 rpm over a second: a sixth of a revolution).
C10_HeadingAdvance ==
    [][(steps' # steps /\ last'.op = "frame") =>
           \E f \in FiredFrames : \E g \in RequestedFrames :
               LET elapsed == now' - f.loop.previousFrameTimestamp
                   ran == g.loop.previousFrameTimestamp - g.loop.startTimestamp
                   turned == g.loop.heading - g.loop.initialHeading
               IN  /\ g.loop.heading - f.loop.heading
                          = (elapsed * autoOrbitCameraSpeed * UnitsPerRev)
                                \div (60 * TicksPerSecond)
                   /\ g.loop.previousFrameTimestamp = now'
                   /\ g.loop.startTimestamp = f.loop.startTimestamp
                   /\ g.loop.heading >= f.loop.heading
                   /\ autoOrbitCameraSpeed = 0 => g.loop.heading = f.loop.heading
                   /\ g.loop.speedsUsed = {} => turned = 0
                   /\ Cardinality(g.loop.speedsUsed) = 1 => turned = TurnOfRun(g.loop)
                   /\ (g.loop.speedsUsed = {10} /\ ran = TicksPerSecond) =>
                          6 * turned = UnitsPerRev
                   /\ camera'.heading = g.loop.heading % UnitsPerRev
      ]_vars

\* a run at 10 rpm has lasted a second, over at least two frames
C10_Witness ==
    \E f \in frames :
        /\ f.loop.speedsUsed = {10}
        /\ f.loop.previousFrameTimestamp - f.loop.startTimestamp = TicksPerSecond
        /\ f.id >= 3
        /\ now = f.loop.previousFrameTimestamp

\* the frame callback the step has requested, for the frame it has applied
AppliedFrames == {g \in RequestedFrames : g.id = animationFrameId'}

\* C11: with the orbit type fixed-orbit every frame applies the loop's
\* captured initialPitch and initialRange around its center, whatever the
\* heading the loop has accumulated; only the heading varies.
C11_FixedOrbitKeepsPitchAndRange ==
    [][(FrameApplied /\ autoOrbitType' = "fixed-orbit") =>
           \E g \in AppliedFrames :
               /\ camera'.pitch = g.loop.initialPitch
               /\ camera'.range = g.loop.initialRange
               /\ camera'.target = g.loop.center
               /\ camera'.heading = g.loop.heading % UnitsPerRev
      ]_vars

\* a fixed orbit has turned away from its initial heading, and the camera
\* holds the initial pitch and range
C11_Witness ==
    /\ last.op = "frame"
    /\ autoOrbitType = "fixed-orbit"
    /\ \E f \in frames :
           /\ f.id = animationFrameId
           /\ (f.loop.heading - f.loop.initialHeading) % UnitsPerRev # 0
           /\ camera.heading # f.loop.initialHeading
           /\ camera.pitch = f.loop.initialPitch
           /\ camera.range = f.loop.initialRange

\* C12: with the orbit type dynamic-orbit every frame applies the pitch
\* initialPitch + 10 degrees * sin(delta) and the range initialRange -
\* 0.55 * initialRange * sin(delta) (to the metre), delta being the heading
\* accumulated since the loop began; at delta = 0 that is the initial pitch and
\* range, and from an initial pitch of -30 degrees at a quarter turn -20 degrees.
C12_DynamicOrbitPose ==
    [][(FrameApplied /\ autoOrbitType' = "dynamic-orbit") =>
           \E g \in AppliedFrames :
               LET delta == g.loop.heading - g.loop.initialHeading
                   sine == Sin1000(delta)
                   shrunk == g.loop.initialRange - camera'.range
               IN  /\ camera'.pitch - g.loop.initialPitch = 10 * sine
                   /\ Abs(100 * 1000 * shrunk - 55 * g.loop.initialRange * sine)
                          < 100 * 1000
                   /\ delta = 0 =>
                          /\ camera'.pitch = g.loop.initialPitch
                          /\ camera'.range = g.loop.initialRange
                   /\ (4 * delta = UnitsPerRev /\ g.loop.initialPitch = MilliDeg(-30)) =>
                          camera'.pitch = MilliDeg(-20)
                   /\ camera'.target = g.loop.center
      ]_vars

\* a dynamic orbit begun at a pitch of -30 degrees has made a quarter turn
C12_Witness ==
    /\ last.op = "frame"
    /\ autoOrbitType = "dynamic-orbit"
    /\ \E f \in frames :
           /\ f.id = animationFrameId
           /\ 4 * (f.loop.heading - f.loop.initialHeading) = UnitsPerRev
           /\ f.loop.initialPitch = MilliDeg(-30)
           /\ camera.pitch = MilliDeg(-20)
           /\ camera.range < f.loop.initialRange

\* the camera as the start of this step finds it: where the step's flight, if
\* any, has arrived
CameraAtStart ==
    CASE last'.op = "flightComplete" -> Arrive(St, currentFlight).camera
      [] last'.op = "flyToResume" ->
             LET fl == CHOOSE fl \in BagToSet(flights) :
                           flights' = flights (-) SetToBag({fl})
             IN  Arrive(St, fl).camera
      [] OTHER -> camera

\* C13: the first pose a newly started loop applies has the heading and the
\* pitch of the camera at the start, and for range the camera's distance from
\* the loop's center, with either orbit type.
C13_StartKeepsPose ==
    [][(steps' # steps /\ last'.start = "running") =>
           \E g \in AppliedFrames :
               /\ camera'.heading = CameraAtStart.heading
               /\ camera'.pitch = CameraAtStart.pitch
               /\ camera'.range = Distance(g.loop.center, CameraAtStart)
               /\ camera'.target = g.loop.center
               /\ g.loop.heading = CameraAtStart.heading
      ]_vars

\* a loop was started by the toggle after the user had turned the camera away
\* from the heading of CAMERA_OFFSET
C13_Witness ==
    /\ last.op = "toggle"
    /\ last.start = "running"
    /\ camera.heading # CAMERA_OFFSET.heading
    /\ \E f \in frames :
           /\ f.id = animationFrameId
           /\ f.loop.initialHeading = camera.heading
           /\ f.loop.initialPitch = camera.pitch

\* C14: when applying the pose fails inside an orbit frame callback, the
\* failure is caught at the callback and logged (it does not leave the
\* callback as an error), the loop requests no further frame and the callback
\* that failed is not pending any more; the camera stays as it was.
C14_FrameFailureIsCaught ==
    [][(steps' # steps /\ last'.op = "frameThrows") =>
           /\ last'.error = NoError
           /\ RequestedFrames = {}
           /\ Cardinality(frames') = Cardinality(frames) - 1
           /\ camera' = camera
      ]_vars

\* the flights the step has left awaiting adjustCoordinateHeight
IssuedFlights == {fl \in BagToSet(flights') : CopiesIn(fl, flights') > CopiesIn(fl, flights)}

\* C15: on a switch of the orbit type with a fly-to target set, the loop is
\* stopped and one flight is issued, around the target, to the pitch of -30
\* degrees and the range of 800 m with the camera's heading, lasting 1 second
\* to fixed-orbit and 0 seconds to dynamic-orbit, whose completion starts the
\* loop again.
C15_TypeSwitchFliesToCanonicalPose ==
    [][(autoOrbitType' # autoOrbitType /\ flyToCoordinates # null) =>
           /\ ~checked'
           /\ \A f \in frames' : f.id # animationFrameId
           /\ \E fl \in IssuedFlights :
                  /\ IssuedFlights = {fl}
                  /\ fl.coords = flyToCoordinates
                  /\ fl.offset = [heading |-> camera.heading,
                                  pitch |-> MilliDeg(BASE_PITCH),
                                  range |-> CAMERA_OFFSET_RANGE]
                  /\ fl.duration = IF autoOrbitType' = "fixed-orbit"
                                   THEN Seconds(1) ELSE Seconds(0)
                  /\ fl.onComplete = "startAutoOrbitAnimation"
      ]_vars

\* C19: performFlyTo called without coordinates throws "No coordinates to
\* fly-to provided." and changes nothing: the pending frames, the toggle,
\* flyToCoordinates, the camera and the flights are as before.
C19_NoCoordinatesNoChange ==
    [][(steps' # steps /\ last'.op = "performFlyToWithoutCoordinates") =>
           /\ last'.error = "No coordinates to fly-to provided."
           /\ UNCHANGED <<checked, autoOrbitCameraSpeed, autoOrbitType,
                          animationFrameId, flyToCoordinates, isUIInitialized,
                          frames, nextFrameId, starts, flights, currentFlight,
                          camera, now, stopped>>
      ]_vars

\* the call was made while a loop ran with the toggle checked and a fly-to
\* target set, and the loop's frame is still pending
C19_Witness ==
    /\ last.op = "performFlyToWithoutCoordinates"
    /\ last.error = "No coordinates to fly-to provided."
    /\ checked
    /\ flyToCoordinates # null
    /\ \E f \in frames : f.id = animationFrameId

\* getNearbyPois has returned
PoisReturned == call.fn = "getNearbyPois" /\ returned.done

\* the places found by all searches, in type order, and their ids
PlacesFound == Flat(call.args.placesResults)
PlaceIds(places) == {places[i].place_id : i \in DOMAIN places}

\* the one result comes before the other in type order
FoundBefore(a, b) == a.type < b.type \/ (a.type = b.type /\ a.rank < b.rank)

\* the integer nearest to count / total * density, the upper one of two
Nearest(count, total, density) ==
    CHOOSE n \in 0..(count * density + 1) :
        /\ 2 * total * n - total <= 2 * count * density
        /\ 2 * count * density < 2 * total * n + total

\* the results a type contributes under the density: its first
\* max(1, round(count / total * density))
Contributed ==
    {PlacesFound[k] : k \in {k \in DOMAIN PlacesFound :
        PlacesFound[k].rank <=
            Max(1, Nearest(Len(call.args.placesResults[PlacesFound[k].type]),
                           Len(PlacesFound), call.args.density))}}

\* the results left after the reduction to the density
LeftByDensity ==
    IF Len(PlacesFound) > call.args.density
    THEN Contributed
    ELSE {PlacesFound[k] : k \in DOMAIN PlacesFound}

\* C16: the list getNearbyPois returns holds no two places with the same
\* place_id, every place of it is one of the search results, and a place that
\* the reduction to the density has left under several types appears once,
\* as the first in type order of the occurrences left.
C16_NoDuplicatePlaces ==
    PoisReturned =>
        LET pois == returned.value
        IN  /\ \A i, j \in DOMAIN pois :
                   i # j => pois[i].place_id # pois[j].place_id
            /\ \A i \in DOMAIN pois :
                   \E k \in DOMAIN PlacesFound : PlacesFound[k] = pois[i]
            /\ \A p \in LeftByDensity :
                   \E i \in DOMAIN pois :
                       /\ pois[i].place_id = p.place_id
                       /\ pois[i] \in LeftByDensity
                       /\ ~FoundBefore(p, pois[i])

\* the places left by the density hold a place under two types, which is
\* returned once
C16_Witness ==
    /\ PoisReturned
    /\ \E p, q \in LeftByDensity :
           /\ p.type < q.type
           /\ p.place_id = q.place_id
           /\ p \in {returned.value[i] : i \in DOMAIN returned.value}
           /\ q \notin {returned.value[i] : i \in DOMAIN returned.value}

\* C16 as stated, for all the places found: no two places returned have the
\* same place_id, every place returned is a search result, and every place
\* found under several types is returned, as its first occurrence in type
\* order.
C16_FirstOccurrenceOfAllFound ==
    PoisReturned =>
        LET pois == returned.value
        IN  /\ \A i, j \in DOMAIN pois :
                   i # j => pois[i].place_id # pois[j].place_id
            /\ \A i \in DOMAIN pois :
                   \E k \in DOMAIN PlacesFound : PlacesFound[k] = pois[i]
            /\ \A k, l \in DOMAIN PlacesFound :
                   (/\ PlacesFound[k].type # PlacesFound[l].type
                    /\ PlacesFound[k].place_id = PlacesFound[l].place_id)
                   => \E i \in DOMAIN pois :
                          /\ pois[i].place_id = PlacesFound[k].place_id
                          /\ ~FoundBefore(PlacesFound[k], pois[i])

\* C20: with at most `density` places found in total, every place found is
\* returned; with more, the places returned are those among the first
\* max(1, round(count / total * density)) results of each type (each once, as
\* its first such occurrence), and every type that found a place has its
\* first place returned.
C20_DensityKeepsProportions ==
    PoisReturned =>
        LET pois == returned.value
            total == Len(PlacesFound)
        IN  /\ total <= call.args.density =>
                   PlaceIds(pois) = PlaceIds(PlacesFound)
            /\ total > call.args.density =>
                   /\ \A i \in DOMAIN pois : pois[i] \in Contributed
                   /\ \A p \in Contributed : p.place_id \in PlaceIds(pois)
                   /\ \A i \in DOMAIN pois : \A p \in Contributed :
                          p.place_id = pois[i].place_id => ~FoundBefore(p, pois[i])
                   /\ \A type \in DOMAIN call.args.placesResults :
                          call.args.placesResults[type] # <<>> =>
                              call.args.placesResults[type][1].place_id
                                  \in PlaceIds(pois)

\* more places were found than the density allows; a type whose share rounds
\* to zero has kept its first place, and a type has lost one of its places
C20_Witness ==
    /\ PoisReturned
    /\ Len(PlacesFound) > call.args.density
    /\ \E type \in DOMAIN call.args.placesResults :
           /\ call.args.placesResults[type] # <<>>
           /\ Nearest(Len(call.args.placesResults[type]), Len(PlacesFound),
                      call.args.density) = 0
           /\ call.args.placesResults[type][1] \in
                  {returned.value[i] : i \in DOMAIN returned.value}
    /\ PlaceIds(returned.value) # PlaceIds(PlacesFound)

\* getCustomConfig has returned after a call of setCustomConfig
ConfigRead == call.fn = "setCustomConfig" /\ returned.done

\* the parameters a call of setCustomConfig for `parameter` may leave changed
\* in what getCustomConfig returns: the parameter, and for a coordinate both
\* coordinates, which getCustomConfig returns together
SetBy(parameter) ==
    IF parameter \in CoordinateParameters THEN CoordinateParameters ELSE {parameter}

\* C17: after setCustomConfig(p, v) with a defined value v, getCustomConfig()
\* returns v under p (the coordinates once both have been set to a value) and
\* every other parameter as it was before the call; after
\* setCustomConfig(p, undefined) it returns nothing under p.
C17_SetThenGetReturnsValue ==
    ConfigRead =>
        LET p == call.args.parameter
            v == call.args.value
            config == returned.value
        IN  /\ v # UndefinedValue =>
                   IF p \in CoordinateParameters
                   THEN (\A q \in CoordinateParameters : call.latest[q] # UndefinedValue)
                        => \A q \in CoordinateParameters :
                               q \in DOMAIN config /\ config[q] = call.latest[q]
                   ELSE p \in DOMAIN config /\ config[p] = v
            /\ v = UndefinedValue => p \notin DOMAIN config
            /\ \A q \in Parameters \ SetBy(p) :
                   /\ (q \in DOMAIN config) = (q \in DOMAIN call.before)
                   /\ q \in DOMAIN config => config[q] = call.before[q]

\* generateStarRatingSVGs has returned or thrown for a rating from 0.1 to 5
StarsReturned ==
    /\ call.fn = "generateStarRatingSVGs"
    /\ call.args \in 1..50
    /\ returned.done

\* C18: for every rating r from 0.1 to 5 in steps of 0.1, generateStarRatingSVGs
\* returns five stars, full ones, then half ones, then empty ones: floor(r)
\* full stars, with one half star when the fractional part of r is from 0.4
\* to 0.7, or with one more full star and no half star when it is above 0.7;
\* the number of empty stars is not negative.
C18_FiveStarsByFraction ==
    StarsReturned =>
        LET fraction == call.args % 10
            half == IF fraction >= 4 /\ fraction <= 7 THEN 1 ELSE 0
            full == (call.args \div 10) + (IF fraction > 7 THEN 1 ELSE 0)
        IN  /\ "value" \in DOMAIN returned
            /\ 5 - full - half >= 0
            /\ returned.value = ArrayFill(full, "full") \o ArrayFill(half, "half")
                                    \o ArrayFill(5 - full - half, "empty")

\* C29: the number of places getNearbyPois returns exceeds the density by at
\* most the number of types searched, and is at most the density when at most
\* that many places were found in total.
C29_CountWithinDensityAndTypes ==
    PoisReturned =>
        /\ Len(returned.value) <= call.args.density + Len(call.args.placesResults)
        /\ Len(PlacesFound) <= call.args.density =>
               Len(returned.value) <= call.args.density

\* more places were found than the density allows, and as many are returned
\* as the density and the number of types together allow
C29_Witness ==
    /\ PoisReturned
    /\ Len(PlacesFound) > call.args.density
    /\ Len(call.args.placesResults) > 0
    /\ Len(returned.value) = call.args.density + Len(call.args.placesResults)

\* the loop whose first frame the step has requested
LoopStarted == {f.loop : f \in {g \in frames' : g.id = nextFrameId}}

\* C24: a pointerdown or wheel event on the canvas stops auto-orbit (the
\* toggle is unchecked and no orbit frame callback is left pending) and resets
\* flyToCoordinates to null; a click that switches the toggle on while
\* flyToCoordinates is null, as the event left it, starts its loop around the
\* point under the middle of the viewport, or no loop when the ray-cast hits
\* nothing; once a fly-to has set flyToCoordinates the start takes its center
\* from them.
C24_CanvasEventResetsOrbitCenter ==
    [][/\ (steps' # steps /\ last'.op = "canvas") =>
              /\ ~checked'
              /\ frames' = {}
              /\ flyToCoordinates' = null
       /\ (steps' # steps /\ last'.op = "toggle" /\ checked') =>
              IF flyToCoordinates = null
              THEN /\ starts' = starts
                   /\ \/ last'.start = "aborted" /\ LoopStarted = {}
                      \/ /\ last'.start = "running"
                         /\ \A loop \in LoopStarted : loop.center = ViewCenter(camera)
                         /\ LoopStarted # {}
              ELSE /\ last'.start = "awaiting"
                   /\ starts' = starts (+) SetToBag({adjustCoordinateHeight(flyToCoordinates)})
      ]_vars

\* another handler has run since the update: a click, a canvas event or a
\* call from the settings, which may stop the loop or issue a flight of its
\* own (a second update is held to the same claim)
Interrupted == last.op \notin Resumptions \cup {"updateCamera"}

\* an orbit loop is running; each of its frames reads the speed and the type
\* last set
OrbitRunning == frames # {}

\* C25: every camera-settings update (updateCamera) is followed by a running
\* orbit loop, which reads the speed and the orbit type the update has set,
\* unless a later handler supersedes its flight or the bound on the steps of a
\* behaviour is reached first; from every state, with flyToCoordinates set or
\* reset to null by a canvas event.
C25_UpdateCameraResumesOrbit ==
    [](last.op = "updateCamera"
          => <>(OrbitRunning \/ Interrupted \/ steps >= MaxSteps))

\* a flight issued by performFlyTo is suspended at its await or in progress:
\* its completeCallback is still to run
PerformFlyToOutstanding ==
    \/ \E fl \in BagToSet(flights) : fl.onComplete = "completeCallback"
    \/ currentFlight # NoFlight /\ currentFlight.onComplete = "completeCallback"

\* the step is the completion of a flight that performFlyTo has issued
PerformFlyToCompletes ==
    \/ /\ last'.op = "flightComplete"
       /\ currentFlight # NoFlight
       /\ currentFlight.onComplete = "completeCallback"
    \/ /\ last'.op = "flyToResume"
       /\ \E fl \in BagToSet(flights) :
              /\ fl.onComplete = "completeCallback"
              /\ fl.duration.defined /\ fl.duration.seconds <= 0

\* C28: the overlay is hidden until a flight of performFlyTo completes, once
\* shown it stays shown (isUIInitialized never returns to false), and it is
\* eventually shown whatever other flights are interleaved with the initial
\* performFlyTo: while it is hidden, a flight of performFlyTo is outstanding,
\* whose completion will show it.
C28_OverlayShownOnce ==
    [][/\ isUIInitialized => isUIInitialized'
       /\ (~isUIInitialized /\ isUIInitialized') => PerformFlyToCompletes
       /\ ~isUIInitialized' => PerformFlyToOutstanding'
      ]_vars

\* the ids of the enlarged markers
Enlarged(m) == {e.id : e \in {f \in m.entities : f.scale # defaultMarkerScale}}

\* C21: in every state in which the click handler is installed, a left click
\* on a POI marker that is not the selected one selects it, makes it the only
\* enlarged marker (the marker selected before is back at the default scale)
\* and opens the sidebar; a click on the selected marker clears the selection,
\* leaves no marker enlarged and closes the sidebar; a click on the center
\* marker or on something that is no marker changes neither the selection,
\* nor the markers, nor the sidebar, and issues no flight and moves no camera.
C21_ClickSelectsOrDeselects ==
    markerClickHandler # null =>
        \A target \in ClickTargets(Pg) :
            LET page == handleClickOnMarker(Pg, target)
                orbit == FlyToClicked(CanvasListener(St), target, markerClickHandler)
            IN  CASE target \in {NotAMarker, CENTER_MARKER_ID} ->
                         /\ page = Pg
                         /\ orbit.camera = camera
                         /\ orbit.flights = flights
                         /\ orbit.currentFlight = currentFlight
                  [] target \notin {NotAMarker, CENTER_MARKER_ID, selectedMarkerId} ->
                         /\ page.selectedMarkerId = target
                         /\ Enlarged(page) = {target}
                         /\ [id |-> target, scale |-> SelectedMarkerScale] \in page.entities
                         /\ page.sidebarIsOpen
                  [] OTHER ->
                         /\ page.selectedMarkerId = null
                         /\ Enlarged(page) = {}
                         /\ ~page.sidebarIsOpen

\* a second marker was clicked while another was selected (the details of
\* both were requested): it is selected, and the first is back at the default
\* scale
C21_Witness ==
    /\ selectedMarkerId = "p2"
    /\ sidebarIsOpen
    /\ BagIn("p1", detailsRequests) /\ BagIn("p2", detailsRequests)
    /\ [id |-> "p1", scale |-> defaultMarkerScale] \in entities
    /\ [id |-> "p2", scale |-> SelectedMarkerScale] \in entities
    /\ [id |-> CENTER_MARKER_ID, scale |-> defaultMarkerScale] \in entities

\* C26: with a marker selected, no section of the sidebar holds the details of
\* another place (of a marker clicked before); and once every place-details
\* response has arrived, the sidebar shows the details of the selected marker,
\* each section populated once.  Responses arrive in any order
\* (PlaceDetailsArrive); a rejected getPlaceDetails request is not modelled.
C26_SidebarShowsSelectedOnly ==
    selectedMarkerId # null =>
        /\ sidebar.name \in {null, selectedMarkerId}
        /\ sidebar.address \in {null, selectedMarkerId}
        /\ \A section \in {sidebar.stars, sidebar.openingHours, sidebar.reviews} :
               \A i \in DOMAIN section : section[i] = selectedMarkerId
        /\ detailsRequests = EmptyBag =>
               /\ sidebar.name = selectedMarkerId
               /\ sidebar.address = selectedMarkerId
               /\ sidebar.stars = <<selectedMarkerId>>
               /\ sidebar.openingHours = <<selectedMarkerId>>
               /\ sidebar.reviews = <<selectedMarkerId>>

\* C22: whatever the marker clicks, the clicks on the close button and the
\* createMarkers calls so far, the selected marker is null or the place_id of a
\* POI of the list most recently passed to createMarkers, and the sidebar is
\* open exactly when a marker is selected.  Stated for the states in which
\* every createMarkers call made so far has returned (no call is suspended at
\* its clampToHeightMostDetailed); createdPois is the list of the last call.
C22_SelectionAmongCreatedPois ==
    (\A i \in DOMAIN markerCalls : markerCalls[i].stage # "clamp") =>
        /\ selectedMarkerId # null =>
               createdPois # null /\ InPois(createdPois, selectedMarkerId)
        /\ sidebarIsOpen <=> selectedMarkerId # null

\* C27: once every updateMarkers call has settled (getNearbyPois and
\* createMarkers have returned, no marker callback is suspended), the entities
\* are the markers of the most recent configuration, one per POI and the center
\* marker, and the marker click handler is bound to that POI list.  The
\* updateMarkers calls overlap in any way (SpecMarkers).
C27_MarkersOfMostRecentConfiguration ==
    (/\ \A i \in DOMAIN markerCalls : markerCalls[i].stage = "returned"
     /\ markerSvgs = EmptyBag) =>
        LET pois == markerCalls[Len(markerCalls)].pois
        IN  /\ {e.id : e \in entities} = {MarkerIds(pois)[i] : i \in DOMAIN MarkerIds(pois)}
            /\ markerClickHandler = pois

\* C23: once updateLocation has set new coordinates and registered their
\* listener, a click on the zoom-reset button starts exactly one fly-to, to the
\* coordinates set last: the flyToBoundingSphere calls awaiting their height
\* after the click are those before it and one to zoomResetController.
C23_ZoomResetFliesToLatestLocation ==
    (zoomResetController # null /\ locationCall = null) =>
        ZoomResetListeners(St, Pg).flights =
            flights (+) SetToBag({[coords |-> zoomResetController,
                                   offset |-> CAMERA_OFFSET,
                                   onComplete |-> "undefined",
                                   duration |-> NoDuration]})

====
